---- MODULE Spec2Model ----
(***************************************************************************)
(* A model of the 10,000 dice game of src/game.py: the scoring engine      *)
(* (Game.calculate_score, Game.count_scoring_dice), one turn               *)
(* (Game.player_turn) and the game loop (Game.setup_players, Game.start).  *)
(*                                                                         *)
(* Four specifications share the variables and the actions:                *)
(*   SpecScore  the two scoring functions applied to every roll of 1..6    *)
(*              dice;                                                      *)
(*   SpecTurn   one call of player_turn, stepped from prompt to prompt;    *)
(*   SpecDice   one call of player_turn whose second roll shows every      *)
(*              combination of faces;                                      *)
(*   SpecGame   Game.start: setup, rotation, final round, winner.          *)
(***************************************************************************)
EXTENDS Integers, Sequences, FiniteSets, TLC

VARIABLES
    players,          \* Game.players: the turn order, a sequence of player ids
    starting_player,  \* Game.starting_player (None before setup: 0)
    total_score,      \* Player.total_score, per player id
    gpc,              \* where Game.start is
    idx,              \* position of the running for loop in players
    game_over,        \* local of Game.start
    winner,           \* local of Game.start (0 until announced)
    player,           \* the argument of the running player_turn (0: none)
    tpc,              \* where player_turn is
    turn_score,       \* local of player_turn
    dice_left,        \* local of player_turn
    roll,             \* local of player_turn: the last roll
    roll_score,       \* local of player_turn
    scoring_dice,     \* local of player_turn
    last_print,       \* the last message player_turn printed
    turn_start_total, \* history: the player's total when the turn began
    turn_rolls,       \* history: the rolls made in the running turn
    trigger,          \* history: the player whose total stopped the rotation
    final_turns       \* history: final-round turns begun, per player id

vars == <<players, starting_player, total_score, gpc, idx, game_over, winner,
          player, tpc, turn_score, dice_left, roll, roll_score, scoring_dice,
          last_print, turn_start_total, turn_rolls, trigger, final_turns>>

gameVars == <<players, starting_player, gpc, idx, game_over, winner, trigger,
              final_turns>>

-----------------------------------------------------------------------------
(* Program constants *)

TARGET_SCORE == 10000
ENTRY_THRESHOLD == 800
DICE_COUNT == 6

\* random.randint(1, 6)
Faces == 1..6

\* a local that has not been assigned yet
Unbound == 0 - 1

(* Bounds of the model *)

\* the most players get_player_count is answered with
MaxPlayers == 3
\* the most rolls made in one turn
MaxTurnRolls == 3

-----------------------------------------------------------------------------
(* collections.Counter *)

\* the keys of Counter(dice) in insertion order: each face at its first
\* appearance
RECURSIVE InsertionOrder(_, _)
InsertionOrder(dice, seen) ==
    IF dice = <<>> THEN <<>>
    ELSE IF Head(dice) \in seen THEN InsertionOrder(Tail(dice), seen)
    ELSE <<Head(dice)>> \o InsertionOrder(Tail(dice), seen \cup {Head(dice)})

\* Counter(dice): a mapping from the faces present to how often each appears
Counter(dice) ==
    [f \in {dice[i] : i \in DOMAIN dice} |->
        Cardinality({i \in DOMAIN dice : dice[i] = f})]

\* counts[f]: a Counter answers 0 for a missing key
CounterGet(counts, f) == IF f \in DOMAIN counts THEN counts[f] ELSE 0

\* sorted(S)
RECURSIVE Sorted(_)
Sorted(S) ==
    IF S = {} THEN <<>>
    ELSE LET m == CHOOSE x \in S : \A y \in S : x <= y
         IN <<m>> \o Sorted(S \ {m})

-----------------------------------------------------------------------------
(* Scoring engine: Game.calculate_score *)

\* a variant of IsStraight that compares the keys without sorting them
IsStraightUnsorted(dice) == InsertionOrder(dice, {}) = <<1, 2, 3, 4, 5, 6>>

\* sorted(counts.keys()) == [1, 2, 3, 4, 5, 6]
IsStraight(dice) ==
    LET keys == InsertionOrder(dice, {})
    IN Sorted({keys[i] : i \in DOMAIN keys}) = <<1, 2, 3, 4, 5, 6>>

\* a variant of IsThreePairs that looks for the pairs side by side
IsThreePairsAdjacent(dice) ==
    /\ Len(dice) = 6
    /\ dice[1] = dice[2] /\ dice[3] = dice[4] /\ dice[5] = dice[6]
    /\ Cardinality({dice[1], dice[3], dice[5]}) = 3

\* len(counts) == 3 and all(v == 2 for v in counts.values())
IsThreePairs(dice) ==
    LET counts == Counter(dice)
    IN /\ Cardinality(DOMAIN counts) = 3
       /\ \A k \in DOMAIN counts : counts[k] = 2

\* a variant of SetBase without the special base of triple 1s
SetBaseNoOnes(num) == num * 100

\* base = 1000 if num == 1 else num * 100
SetBase(num) == IF num = 1 THEN 1000 ELSE num * 100

\* base * (2 ** (cnt - 3))
SetValue(num, cnt) == SetBase(num) * 2 ^ (cnt - 3)

\* for num, cnt in counts.items(): a face seen three times or more adds its
\* set value and is taken out of counts (counts[num] -= cnt)
RECURSIVE ScoreSets(_, _, _)
ScoreSets(keys, counts, score) ==
    IF keys = <<>> THEN [score |-> score, counts |-> counts]
    ELSE LET num == Head(keys)
             cnt == counts[num]
         IN IF cnt >= 3
            THEN ScoreSets(Tail(keys), [counts EXCEPT ![num] = @ - cnt],
                           score + SetValue(num, cnt))
            ELSE ScoreSets(Tail(keys), counts, score)

\* a variant of SinglesScore with the values of 1s and 5s swapped
SinglesScoreSwapped(counts) ==
    CounterGet(counts, 1) * 50 + CounterGet(counts, 5) * 100

\* score += counts[1] * 100; score += counts[5] * 50
SinglesScore(counts) == CounterGet(counts, 1) * 100 + CounterGet(counts, 5) * 50

calculate_score(dice) ==
    IF IsStraight(dice) THEN 1000
    ELSE IF IsThreePairs(dice) THEN 1000
    ELSE LET sets == ScoreSets(InsertionOrder(dice, {}), Counter(dice), 0)
         IN sets.score + SinglesScore(sets.counts)

(* Scoring engine: Game.count_scoring_dice *)

\* for num, cnt in counts.items(): if cnt >= 3: used += cnt
RECURSIVE UsedInSets(_, _, _)
UsedInSets(keys, counts, used) ==
    IF keys = <<>> THEN used
    ELSE LET cnt == counts[Head(keys)]
         IN UsedInSets(Tail(keys), counts, IF cnt >= 3 THEN used + cnt ELSE used)

\* used += counts[1] % 3; used += counts[5] % 3
UsedAsSingles(counts) == (CounterGet(counts, 1) % 3) + (CounterGet(counts, 5) % 3)

count_scoring_dice(dice) ==
    LET counts == Counter(dice)
    IN UsedInSets(InsertionOrder(dice, {}), counts, 0) + UsedAsSingles(counts)

-----------------------------------------------------------------------------
(* SpecScore: the scoring functions called on every roll of 1..6 dice *)

\* Player.roll_dice(num_dice): every list of num_dice faces
RollsOf(num_dice) == [1..num_dice -> Faces]

AllRolls == UNION {RollsOf(n) : n \in 1..DICE_COUNT}

NoGame ==
    /\ players = <<>>
    /\ starting_player = 0
    /\ total_score = <<>>
    /\ idx = 0
    /\ game_over = FALSE
    /\ winner = 0
    /\ trigger = 0
    /\ final_turns = <<>>

InitScore ==
    /\ NoGame
    /\ gpc = "scoring"
    /\ player = 0
    /\ tpc = "idle"
    /\ turn_score = 0
    /\ dice_left = DICE_COUNT
    /\ roll \in AllRolls
    /\ roll_score = Unbound
    /\ scoring_dice = Unbound
    /\ last_print = "none"
    /\ turn_start_total = 0
    /\ turn_rolls = <<>>

\* roll_score = self.calculate_score(roll)
CallCalculateScore ==
    /\ gpc = "scoring"
    /\ roll_score' = calculate_score(roll)
    /\ UNCHANGED <<gameVars, total_score, player, tpc, turn_score, dice_left,
                   roll, scoring_dice, last_print, turn_start_total, turn_rolls>>

\* scoring_dice = self.count_scoring_dice(roll)
CallCountScoringDice ==
    /\ gpc = "scoring"
    /\ scoring_dice' = count_scoring_dice(roll)
    /\ UNCHANGED <<gameVars, total_score, player, tpc, turn_score, dice_left,
                   roll, roll_score, last_print, turn_start_total, turn_rolls>>

NextScore == CallCalculateScore \/ CallCountScoringDice

SpecScore == InitScore /\ [][NextScore]_vars

-----------------------------------------------------------------------------
(* One turn: Game.player_turn, stepped from one input() to the next *)

\* what input() may return at a prompt
Answers == {"Y", "y", "N", " n ", "R", "B", " b ", "X", ""}

\* .strip().upper()
StripUpper(s) ==
    CASE s = "y" -> "Y"
      [] s = " n " -> "N"
      [] s = " b " -> "B"
      [] OTHER -> s

\* print(...) then turn_score = 0; dice_left = self.DICE_COUNT, up to the
\* first prompt
BeginTurn(p) ==
    /\ player' = p
    /\ turn_score' = 0
    /\ dice_left' = DICE_COUNT
    /\ tpc' = "prompt"
    /\ last_print' = "turn"
    /\ turn_start_total' = total_score[p]
    /\ turn_rolls' = <<>>
    /\ UNCHANGED <<total_score, roll, roll_score, scoring_dice>>

\* player.total_score + turn_score < self.ENTRY_THRESHOLD
BelowThreshold(total, score) == total + score < ENTRY_THRESHOLD

\* a variant of Bank that assigns the turn's points instead of adding them
BankAssigning ==
    /\ total_score' = [total_score EXCEPT ![player] = turn_score]
    /\ tpc' = "banked"
    /\ last_print' = "banks"
    /\ UNCHANGED <<gameVars, player, turn_score, dice_left, roll, roll_score,
                   scoring_dice, turn_start_total, turn_rolls>>

\* player.total_score += turn_score; print(...); return
Bank ==
    /\ total_score' = [total_score EXCEPT ![player] = @ + turn_score]
    /\ tpc' = "banked"
    /\ last_print' = "banks"
    /\ UNCHANGED <<gameVars, player, turn_score, dice_left, roll, roll_score,
                   scoring_dice, turn_start_total, turn_rolls>>

\* a variant of DeclineRejected that also throws the turn's points away
DeclineRejectedForfeiting(answer) ==
    /\ tpc = "prompt"
    /\ StripUpper(answer) = "N"
    /\ BelowThreshold(total_score[player], turn_score)
    /\ last_print' = "must_roll"
    /\ turn_score' = 0
    /\ UNCHANGED <<gameVars, total_score, player, tpc, dice_left, roll,
                   roll_score, scoring_dice, turn_start_total, turn_rolls>>

\* choice == "N" below the entry threshold: print(...); continue
DeclineRejected(answer) ==
    /\ tpc = "prompt"
    /\ StripUpper(answer) = "N"
    /\ BelowThreshold(total_score[player], turn_score)
    /\ last_print' = "must_roll"
    /\ UNCHANGED <<gameVars, total_score, player, tpc, turn_score, dice_left,
                   roll, roll_score, scoring_dice, turn_start_total, turn_rolls>>

\* choice == "N" otherwise: the player banks and the turn ends
DeclineBank(answer) ==
    /\ tpc = "prompt"
    /\ StripUpper(answer) = "N"
    /\ ~BelowThreshold(total_score[player], turn_score)
    /\ Bank

\* a variant of BustReturn that takes the turn's points off the total
BustReturnLosingTotal ==
    /\ tpc' = "busted"
    /\ last_print' = "bust"
    /\ total_score' = [total_score EXCEPT ![player] = @ - turn_score]
    /\ UNCHANGED <<turn_score, dice_left, scoring_dice>>

\* roll_score == 0: print(...); return
BustReturn ==
    /\ tpc' = "busted"
    /\ last_print' = "bust"
    /\ UNCHANGED <<total_score, turn_score, dice_left, scoring_dice>>

\* a variant of AddToTurn that keeps only the last roll's points
AddToTurnOverwriting(score, points) == points

\* turn_score += roll_score
AddToTurn(score, points) == score + points

\* a variant of NextDiceLeft that resets only below zero
NextDiceLeftBelowZero(left, used) ==
    IF left - used >= 0 THEN left - used ELSE DICE_COUNT

\* dice_left - scoring_dice if dice_left - scoring_dice > 0 else DICE_COUNT
NextDiceLeft(left, used) == IF left - used > 0 THEN left - used ELSE DICE_COUNT

\* any other choice: roll dice_left dice, score the roll, bust or accumulate,
\* work out the dice left, and stop at the next prompt
RollDice(answer, r) ==
    /\ tpc = "prompt"
    /\ StripUpper(answer) # "N"
    /\ Len(turn_rolls) < MaxTurnRolls
    /\ roll' = r
    /\ turn_rolls' = Append(turn_rolls, r)
    /\ roll_score' = calculate_score(r)
    /\ IF roll_score' = 0
       THEN BustReturn
       ELSE /\ turn_score' = AddToTurn(turn_score, roll_score')
            /\ scoring_dice' = count_scoring_dice(r)
            /\ dice_left' = NextDiceLeft(dice_left, scoring_dice')
            /\ IF dice_left' = DICE_COUNT
               THEN tpc' = "hot" /\ last_print' = "hot"
               ELSE tpc' = "prompt" /\ last_print' = "score"
            /\ UNCHANGED total_score
    /\ UNCHANGED <<gameVars, player, turn_start_total>>

\* hot_choice == "B": the player banks and the turn ends
HotBank(answer) ==
    /\ tpc = "hot"
    /\ StripUpper(answer) = "B"
    /\ Bank

\* any other hot_choice: back to the top of the loop
HotContinue(answer) ==
    /\ tpc = "hot"
    /\ StripUpper(answer) # "B"
    /\ tpc' = "prompt"
    /\ UNCHANGED <<gameVars, total_score, player, turn_score, dice_left, roll,
                   roll_score, scoring_dice, last_print, turn_start_total,
                   turn_rolls>>

-----------------------------------------------------------------------------
(* SpecTurn: one call of player_turn *)

\* the rolls the dice are made to show in SpecTurn: for every number of dice a
\* bust, a roll that leaves dice and a roll that uses them all, and a roll for
\* each scoring rule
TurnDice ==
    { <<1, 1, 1, 2, 3, 4>>, <<2, 2, 2, 5, 5, 1>>, <<1, 2, 3, 4, 5, 6>>,
      <<2, 2, 3, 3, 6, 6>>, <<4, 4, 1, 1, 5, 5>>, <<5, 5, 5, 5, 5, 2>>,
      <<2, 3, 4, 6, 2, 3>>, <<5, 2, 2, 3, 4, 6>>, <<1, 1, 5, 2, 3, 4>>,
      <<2, 2, 3, 4, 6>>, <<1, 5, 2, 3, 4>>, <<1, 1, 1, 5, 5>>,
      <<1, 1, 5, 3, 4>>,
      <<2, 3, 4, 6>>, <<1, 1, 1, 1>>, <<5, 2, 3, 4>>,
      <<5, 5, 5>>, <<1, 1, 2>>, <<2, 2, 6>>, <<1, 5, 6>>,
      <<1, 5>>, <<2, 6>>, <<5, 3>>,
      <<2>>, <<5>>, <<1>> }

TurnRolls(num_dice) == {r \in TurnDice : Len(r) = num_dice}

\* the totals a player enters the turn with
StartTotals == {0, 1000}

InitTurn ==
    /\ players = <<1, 2>>
    /\ starting_player = 1
    /\ total_score \in {[p \in {1, 2} |-> IF p = 1 THEN t ELSE 0] : t \in StartTotals}
    /\ gpc = "rotation"
    /\ idx = 1
    /\ game_over = FALSE
    /\ winner = 0
    /\ trigger = 0
    /\ final_turns = [p \in {1, 2} |-> 0]
    /\ player = 1
    /\ tpc = "prompt"
    /\ turn_score = 0
    /\ dice_left = DICE_COUNT
    /\ roll = <<>>
    /\ roll_score = Unbound
    /\ scoring_dice = Unbound
    /\ last_print = "turn"
    /\ turn_start_total = total_score[1]
    /\ turn_rolls = <<>>

NextTurn ==
    \/ \E answer \in Answers : DeclineRejected(answer)
    \/ \E answer \in Answers : DeclineBank(answer)
    \/ \E answer \in Answers : \E r \in TurnRolls(dice_left) : RollDice(answer, r)
    \/ \E answer \in Answers : HotBank(answer)
    \/ \E answer \in Answers : HotContinue(answer)

SpecTurn == InitTurn /\ [][NextTurn]_vars

-----------------------------------------------------------------------------
(* SpecDice: one call of player_turn in which the second roll shows every *)
(* combination of faces, for every number of dice a first roll can leave  *)

\* the first rolls of SpecDice: they leave 5, 4, 3, 2, 1 and 6 dice
FirstDice ==
    { <<5, 2, 2, 3, 4, 6>>, <<1, 5, 2, 2, 3, 4>>, <<1, 1, 1, 2, 3, 4>>,
      <<1, 1, 1, 5, 2, 3>>, <<1, 1, 1, 5, 5, 2>>, <<2, 2, 2, 5, 5, 1>> }

NextDice ==
    \/ \E answer \in Answers : DeclineRejected(answer)
    \/ \E answer \in Answers : DeclineBank(answer)
    \/ turn_rolls = <<>> /\ \E r \in FirstDice : RollDice("Y", r)
    \/ Len(turn_rolls) = 1 /\ \E r \in RollsOf(dice_left) : RollDice("Y", r)
    \/ \E answer \in Answers : HotBank(answer)
    \/ \E answer \in Answers : HotContinue(answer)

SpecDice == InitTurn /\ [][NextDice]_vars

-----------------------------------------------------------------------------
(* The game: Game.setup_players and Game.start *)

\* rolls.sort(key=..., reverse=True); rolls[0][0]: the sort is stable, so the
\* first player in input order among those with the highest die
StarterOf(dice) ==
    CHOOSE i \in DOMAIN dice :
        /\ \A j \in DOMAIN dice : dice[j] <= dice[i]
        /\ \A j \in DOMAIN dice : j < i => dice[j] < dice[i]

\* self.players.index(self.starting_player)
IndexOf(seq, x) ==
    CHOOSE i \in DOMAIN seq : seq[i] = x /\ \A j \in DOMAIN seq : j < i => seq[j] # x

\* self.players[start_idx:] + self.players[:start_idx], start_idx counted
\* from 1 here
Rotate(seq, start) == SubSeq(seq, start, Len(seq)) \o SubSeq(seq, 1, start - 1)

\* setup_players, then the first turn of the rotation up to its first prompt;
\* count is the answer get_player_count accepted, dice the die of each player
Setup(count, dice) ==
    /\ gpc = "setup"
    /\ LET entered == [i \in 1..count |-> i]
           starter == entered[StarterOf(dice)]
       IN /\ starting_player' = starter
          /\ players' = Rotate(entered, IndexOf(entered, starter))
          /\ total_score' = [p \in 1..count |-> 0]
          /\ final_turns' = [p \in 1..count |-> 0]
    /\ game_over' = FALSE
    /\ gpc' = "rotation"
    /\ idx' = 1
    /\ player' = players'[1]
    /\ turn_score' = 0
    /\ dice_left' = DICE_COUNT
    /\ tpc' = "prompt"
    /\ last_print' = "turn"
    /\ turn_start_total' = 0
    /\ turn_rolls' = <<>>
    /\ UNCHANGED <<winner, trigger, roll, roll_score, scoring_dice>>

\* a variant of WinnerOf that keeps the last of the highest
WinnerOfLast(order, totals) ==
    order[CHOOSE i \in DOMAIN order :
            /\ \A j \in DOMAIN order : totals[order[j]] <= totals[order[i]]
            /\ \A j \in DOMAIN order : j > i => totals[order[j]] < totals[order[i]]]

\* max(self.players, key=lambda p: p.total_score): the first of the highest
WinnerOf(order, totals) ==
    order[CHOOSE i \in DOMAIN order :
            /\ \A j \in DOMAIN order : totals[order[j]] <= totals[order[i]]
            /\ \A j \in DOMAIN order : j < i => totals[order[j]] < totals[order[i]]]

\* the positions from i on whose player the final round does not skip
\* (if player is not self.starting_player)
FinalPositionsFrom(i) ==
    {j \in i..Len(players) : players[j] # starting_player}

\* the final-round for loop from position i: the next turn it runs, up to
\* that turn's first prompt, or the winner when none is left
FinalRoundFrom(i) ==
    IF FinalPositionsFrom(i) # {}
    THEN LET j == CHOOSE k \in FinalPositionsFrom(i) :
                        \A m \in FinalPositionsFrom(i) : k <= m
         IN /\ gpc' = "final"
            /\ idx' = j
            /\ final_turns' = [final_turns EXCEPT ![players[j]] = @ + 1]
            /\ BeginTurn(players[j])
            /\ UNCHANGED winner
    ELSE /\ gpc' = "done"
         /\ winner' = WinnerOf(players, total_score)
         /\ tpc' = "idle"
         /\ UNCHANGED <<idx, final_turns, total_score, player, turn_score,
                        dice_left, roll, roll_score, scoring_dice, last_print,
                        turn_start_total, turn_rolls>>

TurnOver == tpc \in {"busted", "banked"}

\* a variant of RotationNext that restarts the for loop at the first player
RotationNextFromFirst ==
    /\ gpc = "rotation"
    /\ TurnOver
    /\ total_score[player] < TARGET_SCORE
    /\ idx' = 1
    /\ BeginTurn(players[idx'])
    /\ UNCHANGED <<players, starting_player, gpc, game_over, winner, trigger,
                   final_turns>>

\* a turn of the rotation returned below the target: the next player's turn
\* (the for loop, restarted by the while loop after the last player)
RotationNext ==
    /\ gpc = "rotation"
    /\ TurnOver
    /\ total_score[player] < TARGET_SCORE
    /\ idx' = IF idx < Len(players) THEN idx + 1 ELSE 1
    /\ BeginTurn(players[idx'])
    /\ UNCHANGED <<players, starting_player, gpc, game_over, winner, trigger,
                   final_turns>>

\* a turn of the rotation returned with the target reached: game_over = True,
\* break, and the final round starts
RotationStop ==
    /\ gpc = "rotation"
    /\ TurnOver
    /\ total_score[player] >= TARGET_SCORE
    /\ game_over' = TRUE
    /\ trigger' = player
    /\ FinalRoundFrom(1)
    /\ UNCHANGED <<players, starting_player>>

\* a turn of the final round returned: the next one, or the winner
FinalNext ==
    /\ gpc = "final"
    /\ TurnOver
    /\ FinalRoundFrom(idx + 1)
    /\ UNCHANGED <<players, starting_player, game_over, trigger>>

-----------------------------------------------------------------------------
(* SpecGame: Game.start *)

\* the rolls the dice are made to show in SpecGame: large scores, so that
\* totals reach the target within a few turns
GameDice == { <<1, 1, 1, 1, 1, 1>>, <<2, 3, 4, 6, 2, 3>> }

GameRolls(num_dice) == {r \in GameDice : Len(r) = num_dice}

InitGame ==
    /\ players = <<>>
    /\ starting_player = 0
    /\ total_score = <<>>
    /\ gpc = "setup"
    /\ idx = 0
    /\ game_over = FALSE
    /\ winner = 0
    /\ trigger = 0
    /\ final_turns = <<>>
    /\ player = 0
    /\ tpc = "idle"
    /\ turn_score = 0
    /\ dice_left = DICE_COUNT
    /\ roll = <<>>
    /\ roll_score = Unbound
    /\ scoring_dice = Unbound
    /\ last_print = "none"
    /\ turn_start_total = 0
    /\ turn_rolls = <<>>

NextGame ==
    \/ \E count \in 2..MaxPlayers : \E dice \in [1..count -> Faces] :
            Setup(count, dice)
    \/ \E answer \in Answers : DeclineRejected(answer)
    \/ \E answer \in Answers : DeclineBank(answer)
    \/ \E answer \in Answers : \E r \in GameRolls(dice_left) : RollDice(answer, r)
    \/ \E answer \in Answers : HotBank(answer)
    \/ \E answer \in Answers : HotContinue(answer)
    \/ RotationNext
    \/ RotationStop
    \/ FinalNext

SpecGame == InitGame /\ [][NextGame]_vars

-----------------------------------------------------------------------------
(* The scoring rules as the specification words them, by face counts *)

CountOf(dice, f) == Cardinality({i \in DOMAIN dice : dice[i] = f})

SumOverFaces(F(_)) == F(1) + F(2) + F(3) + F(4) + F(5) + F(6)

\* rule 1: the six faces 1..6 each appear exactly once
StraightRoll(dice) == Len(dice) = 6 /\ \A f \in Faces : CountOf(dice, f) = 1

\* rule 2: exactly three distinct faces, each appearing exactly twice
ThreePairsRoll(dice) ==
    /\ Len(dice) = 6
    /\ Cardinality({f \in Faces : CountOf(dice, f) > 0}) = 3
    /\ \A f \in Faces : CountOf(dice, f) \in {0, 2}

\* dice consumed by rules 3-4
ConsumedBySetsAndSingles(dice) ==
    LET InSet(f) == IF CountOf(dice, f) >= 3 THEN CountOf(dice, f) ELSE 0
        Single(f) == IF f \in {1, 5} /\ CountOf(dice, f) < 3
                     THEN CountOf(dice, f) ELSE 0
    IN SumOverFaces(InSet) + SumOverFaces(Single)

\* points of rules 3-4
PointsBySetsAndSingles(dice) ==
    LET base(f) == IF f = 1 THEN 1000 ELSE 100 * f
        InSet(f) == IF CountOf(dice, f) >= 3
                    THEN base(f) * 2 ^ (CountOf(dice, f) - 3) ELSE 0
        ones == IF CountOf(dice, 1) < 3 THEN 100 * CountOf(dice, 1) ELSE 0
        fives == IF CountOf(dice, 5) < 3 THEN 50 * CountOf(dice, 5) ELSE 0
    IN SumOverFaces(InSet) + ones + fives

Scored == gpc = "scoring" /\ roll_score # Unbound
Counted == gpc = "scoring" /\ scoring_dice # Unbound

-----------------------------------------------------------------------------
(* Claims about the scoring engine, under SpecScore *)

\* C6: for every 6-dice roll that is a straight or three pairs, in any order,
\* count_scoring_dice(roll) returns 6.
C6_StraightAndThreePairsConsumeSix ==
    (Counted /\ (StraightRoll(roll) \/ ThreePairsRoll(roll)))
        => scoring_dice = 6

\* C7: for every roll of 1..6 dice that is neither a straight nor three
\* pairs, count_scoring_dice(roll) is the number of dice consumed by rules
\* 3-4: the dice of every face seen three times or more, plus the 1s when
\* there are fewer than three, plus the 5s when there are fewer than three.
C7_ConsumedBySetsAndSingles ==
    (Counted /\ ~StraightRoll(roll) /\ ~ThreePairsRoll(roll))
        => scoring_dice = ConsumedBySetsAndSingles(roll)

\* C8: every 6-dice straight or three pairs, in any order, scores exactly
\* 1000, before any N-of-a-kind or single 1/5 scoring; a straight is only
\* recognised for a roll of exactly 6 dice.
C8_StraightAndThreePairsScore1000 ==
    /\ (Scored /\ (StraightRoll(roll) \/ ThreePairsRoll(roll)))
            => roll_score = 1000
    /\ (Scored /\ roll = <<4, 4, 1, 1, 5, 5>>) => roll_score = 1000
    /\ (gpc = "scoring" /\ IsStraight(roll)) => Len(roll) = 6

C8_Witness ==
    /\ Scored
    /\ roll = <<6, 4, 5, 1, 3, 2>>
    /\ roll_score = 1000

\* C9: every roll of 1..6 dice that is neither a straight nor three pairs
\* scores the sum over the faces seen three times or more of
\* base * 2^(count - 3), base 1000 for face 1 and 100 * face otherwise, plus
\* 100 per 1 when there are fewer than three 1s, plus 50 per 5 when there are
\* fewer than three 5s; so [1,1,1] = 1000, [1,1,1,1] = 2000, [5,5,5] = 500,
\* [5,5,5,5] = 1000, [1,5] = 150, [2,2,6] = 0, [2,3,4,6] = 0.
C9_SetsAndSinglesScore ==
    Scored =>
        /\ (~StraightRoll(roll) /\ ~ThreePairsRoll(roll))
                => roll_score = PointsBySetsAndSingles(roll)
        /\ roll = <<1, 1, 1>> => roll_score = 1000
        /\ roll = <<1, 1, 1, 1>> => roll_score = 2000
        /\ roll = <<5, 5, 5>> => roll_score = 500
        /\ roll = <<5, 5, 5, 5>> => roll_score = 1000
        /\ roll = <<1, 5>> => roll_score = 150
        /\ roll = <<2, 2, 6>> => roll_score = 0
        /\ roll = <<2, 3, 4, 6>> => roll_score = 0

C9_Witness ==
    /\ Scored
    /\ roll = <<1, 5, 1, 1, 1, 5>>
    /\ roll_score = 2100

\* has a 1 or a 5 and no face three times or more
SinglesOnly(dice) ==
    /\ Len(dice) \in 3..6
    /\ CountOf(dice, 1) + CountOf(dice, 5) >= 1
    /\ \A f \in Faces : CountOf(dice, f) < 3

\* C10 as stated: every roll of 3..6 dice with at least one 1 or 5 and no
\* face three times or more scores 100 per 1 plus 50 per 5.
C10_SinglesScore_Original ==
    (Scored /\ SinglesOnly(roll))
        => roll_score = 100 * CountOf(roll, 1) + 50 * CountOf(roll, 5)

\* C10 amended: every roll of 3..6 dice with at least one 1 or 5 and no face
\* three times or more, that is neither a straight nor three pairs, scores
\* 100 per 1 plus 50 per 5.
C10_SinglesScore ==
    (Scored /\ SinglesOnly(roll) /\ ~StraightRoll(roll) /\ ~ThreePairsRoll(roll))
        => roll_score = 100 * CountOf(roll, 1) + 50 * CountOf(roll, 5)

C10_Witness ==
    /\ Scored
    /\ roll = <<5, 2, 1, 5, 2, 3>>
    /\ roll_score = 200

-----------------------------------------------------------------------------
(* Claims about one turn, under SpecTurn *)

\* a step of player_turn that rolled the dice
Rolled == Len(turn_rolls') = Len(turn_rolls) + 1

RECURSIVE SumOfScores(_)
SumOfScores(rolls) ==
    IF rolls = <<>> THEN 0
    ELSE calculate_score(Head(rolls)) + SumOfScores(Tail(rolls))

\* the dice of a roll that contributed to scoring under rules 1-4
Contributed(dice) ==
    IF StraightRoll(dice) \/ ThreePairsRoll(dice) THEN Len(dice)
    ELSE ConsumedBySetsAndSingles(dice)

\* C1: entry-threshold gate: a turn never ends in a bank, by the plain 'N'
\* choice or by the hot-dice 'B' choice, while total_score + turn_score is
\* below 800, so a player's total is 0 or at least 800 in every state.
C1_EntryThresholdGate ==
    /\ tpc = "banked" => total_score[player] >= ENTRY_THRESHOLD
    /\ \A p \in DOMAIN total_score :
            total_score[p] = 0 \/ total_score[p] >= ENTRY_THRESHOLD

\* C3: a roll that scores 0 ends the turn at once with the player's total as
\* it was when the turn began, whatever the turn had accumulated; a total
\* changes only in a step that banks.
C3_BustKeepsTotal ==
    [][ /\ (Rolled /\ calculate_score(roll') = 0)
            => /\ tpc' = "busted"
               /\ total_score' = total_score
               /\ total_score'[player'] = turn_start_total'
        /\ total_score' # total_score => tpc' = "banked" ]_vars

C3_Witness ==
    /\ tpc = "busted"
    /\ turn_rolls = << <<1, 1, 5, 2, 3, 4>>, <<1, 1, 2>>, <<2>> >>
    /\ turn_score = 450
    /\ turn_start_total = 1000
    /\ total_score[player] = 1000

\* C4: a turn that ends in a bank adds to the player's total exactly the sum
\* of calculate_score over the rolls of that turn; from 0, [1,1,1,2,3,4] then
\* [5,5,5] then bank leaves 1500.
C4_BankAddsSumOfRolls ==
    tpc = "banked" =>
        /\ total_score[player] = turn_start_total + SumOfScores(turn_rolls)
        /\ (turn_start_total = 0
            /\ turn_rolls = << <<1, 1, 1, 2, 3, 4>>, <<5, 5, 5>> >>)
                => total_score[player] = 1500

C4_Witness ==
    /\ tpc = "banked"
    /\ turn_start_total = 0
    /\ turn_rolls = << <<1, 1, 1, 2, 3, 4>>, <<5, 5, 5>> >>
    /\ total_score[player] = 1500

\* C5: after every scoring roll of n dice the next roll has 6 dice exactly
\* when all n dice contributed to scoring under rules 1-4, and n minus the
\* number of contributing dice otherwise.
C5_HotDiceReset ==
    [][ (Rolled /\ calculate_score(roll') > 0)
            => dice_left' = IF Contributed(roll') = Len(roll')
                            THEN DICE_COUNT
                            ELSE Len(roll') - Contributed(roll') ]_vars

-----------------------------------------------------------------------------
(* Claims about the game, under SpecGame *)

\* C2: once a total reaches 10000 and the rotation stops, exactly one more
\* turn is run for every player other than the one who reached the target,
\* and none for that player, wherever that player sits in the turn order.
C2_FinalRoundSkipsTrigger ==
    gpc = "done" =>
        \A p \in DOMAIN final_turns :
            final_turns[p] = IF p = trigger THEN 0 ELSE 1

\* the position after i in the cyclic order of a list of n
CyclicNext(i, n) == (i % n) + 1

\* the position of a player in the turn order
PositionOf(p) == CHOOSE i \in DOMAIN players : players[i] = p

\* C11: during the rotation turns are taken one at a time in the cyclic order
\* of the player list fixed at setup, starting with its first player; the
\* rotation goes on while no total is 10000 or more and stops right after the
\* first turn that leaves the acting player's total at 10000 or more.
C11_TurnOrder ==
    [][ /\ (gpc = "setup" /\ gpc' = "rotation")
            => (player' = players'[1] /\ tpc' = "prompt")
        /\ gpc # "setup" => players' = players
        /\ (gpc = "rotation" /\ gpc' = "rotation" /\ player' # player)
            => /\ TurnOver
               /\ tpc' = "prompt"
               /\ player' = players[CyclicNext(PositionOf(player), Len(players))]
        /\ (gpc' = "rotation" /\ tpc' \in {"prompt", "hot"})
            => \A p \in DOMAIN total_score' : total_score'[p] < TARGET_SCORE
        /\ (gpc = "rotation" /\ TurnOver)
            => IF total_score[player] >= TARGET_SCORE
               THEN gpc' # "rotation"
               ELSE gpc' = "rotation" /\ tpc' = "prompt" /\ player' # player
      ]_vars

\* the last of three players has played and the first is on turn again
C11_Witness ==
    /\ gpc = "rotation"
    /\ Len(players) = 3
    /\ tpc = "prompt"
    /\ player = players[1]
    /\ total_score[players[3]] = 8000
    /\ total_score[players[1]] = 8000

\* C12: the declared winner's total is at least every other player's total,
\* and when several players share the highest total the one earliest in the
\* turn order is declared.
C12_Winner ==
    gpc = "done" =>
        /\ winner \in DOMAIN total_score
        /\ \A p \in DOMAIN total_score : total_score[winner] >= total_score[p]
        /\ \A p \in DOMAIN total_score :
                total_score[p] = total_score[winner]
                    => PositionOf(winner) <= PositionOf(p)

\* two players share the highest total
C12_Witness ==
    /\ gpc = "done"
    /\ \E p \in DOMAIN total_score :
            p # winner /\ total_score[p] = total_score[winner]

\* C13: every player's total is a non-negative integer that never decreases,
\* in every step of every turn of the rotation and of the final round.
C13_TotalNeverDecreases ==
    [][ \A p \in DOMAIN total_score' :
            /\ total_score'[p] \in Nat
            /\ p \in DOMAIN total_score => total_score'[p] >= total_score[p]
      ]_vars

\* a bank in the final round on top of an earlier total
C13_Witness ==
    /\ gpc = "final"
    /\ tpc = "banked"
    /\ turn_start_total = 8000
    /\ total_score[player] = 24000

-----------------------------------------------------------------------------
(* More claims about the scoring engine, under SpecScore *)

\* n dice showing f
Copies(f, n) == [i \in 1..n |-> f]

\* the permutation of a roll with its faces in ascending order
Ascending(dice) ==
    Copies(1, CountOf(dice, 1)) \o Copies(2, CountOf(dice, 2))
        \o Copies(3, CountOf(dice, 3)) \o Copies(4, CountOf(dice, 4))
        \o Copies(5, CountOf(dice, 5)) \o Copies(6, CountOf(dice, 6))

\* C14: calculate_score and count_scoring_dice depend on the multiset of the
\* roll only: every roll of 1..6 dice gets the values its ascending
\* permutation gets, so all permutations agree; the calls leave the roll
\* unchanged, and a call repeated after any other calls returns what it
\* returned before.
C14_PureOnMultiset ==
    [][ /\ roll' = roll
        /\ roll_score' # Unbound
            => roll_score' = calculate_score(Ascending(roll))
        /\ scoring_dice' # Unbound
            => scoring_dice' = count_scoring_dice(Ascending(roll))
        /\ Scored => roll_score' = roll_score
        /\ Counted => scoring_dice' = scoring_dice
      ]_vars

C14_Witness ==
    /\ Scored
    /\ Counted
    /\ roll = <<6, 2, 3, 2, 6, 3>>
    /\ roll_score = 1000
    /\ scoring_dice = 0

\* C17: for every roll of 1..6 dice, if calculate_score(roll) > 0 then
\* count_scoring_dice(roll) >= 1.
C17_ScoringRollConsumesADie ==
    (Scored /\ Counted /\ roll_score > 0) => scoring_dice >= 1

-----------------------------------------------------------------------------
(* More claims about one turn, under SpecTurn *)

\* a step of player_turn taken on the answer a
AnswerStep(a) ==
    \/ DeclineRejected(a)
    \/ DeclineBank(a)
    \/ \E r \in TurnRolls(dice_left) : RollDice(a, r)
    \/ HotBank(a)
    \/ HotContinue(a)

\* the two values each prompt names
Recognized(a) ==
    IF tpc = "hot" THEN StripUpper(a) \in {"R", "B"}
    ELSE StripUpper(a) \in {"Y", "N"}

\* the turn stays where it is: nothing rolled, nothing banked, same prompt
TurnStateKept ==
    /\ tpc' = tpc
    /\ turn_score' = turn_score
    /\ dice_left' = dice_left
    /\ total_score' = total_score
    /\ turn_rolls' = turn_rolls
    /\ roll' = roll

\* C15: every turn starts by rolling: no turn ends in BANKED without at least
\* one roll made in that turn, also for a player whose total is already 800
\* or more.
C15_BankNeedsARoll == tpc = "banked" => Len(turn_rolls) >= 1

\* C16: at the Y/N prompt and at the R/B prompt an answer that is not one of
\* the two recognized values causes neither a roll nor a bank: turn_score,
\* dice_left and total_score are unchanged and the same decision is asked
\* again.
C16_UnrecognizedAnswerIgnored ==
    [][ \A a \in Answers :
            (~Recognized(a) /\ AnswerStep(a)) => TurnStateKept ]_vars

\* C19: a player who answers 'N' while total_score + turn_score < 800 (such
\* as total 0 and turn score 300) does not end the turn: turn_score,
\* dice_left and total_score are unchanged, no dice are rolled, and the
\* player is asked again.
C19_RejectedBankKeepsTurn ==
    [][ \A a \in Answers :
            ( /\ tpc = "prompt"
              /\ StripUpper(a) = "N"
              /\ total_score[player] + turn_score < ENTRY_THRESHOLD
              /\ AnswerStep(a) ) => TurnStateKept ]_vars

C19_Witness ==
    /\ tpc = "prompt"
    /\ last_print = "must_roll"
    /\ total_score[player] = 0
    /\ turn_score = 300
    /\ dice_left = 2
    /\ Len(turn_rolls) = 2

-----------------------------------------------------------------------------
(* Claims about the dice left, under SpecDice *)

\* C18: in every state of player_turn the number of dice to roll next is an
\* integer in 1..6: it is 6 when the turn starts and stays in 1..6 after
\* every scoring roll, whatever the dice show.
C18_DiceLeftInRange ==
    /\ dice_left \in 1..DICE_COUNT
    /\ (tpc = "prompt" /\ turn_rolls = <<>> /\ last_print = "turn")
            => dice_left = DICE_COUNT

\* more dice counted as scoring than were rolled
C18_Witness ==
    /\ Len(turn_rolls) = 2
    /\ Len(turn_rolls[2]) = 4
    /\ scoring_dice = 5
    /\ dice_left = DICE_COUNT
    /\ tpc = "hot"

====
